---- MODULE Spec2Model ----
(***************************************************************************)
(* babyvm.c: a stack of object references (the roots), a linked list of    *)
(* every allocated object, and a mark-and-sweep collector that runs when   *)
(* an allocation finds numObjects == maxObjects.                           *)
(*                                                                         *)
(* An object is a heap address in Ids.  heap[a] is the memory at address   *)
(* a, whether or not an object currently lives there: free() does not      *)
(* erase it and malloc() may hand the same address out again.  The chain   *)
(* firstObject, firstObject->next, ... is the sequence `objects`.          *)
(* Each action is one call of the public API made by the caller.           *)
(*                                                                         *)
(* The asserts of push and pop are compiled in (the source defines no      *)
(* NDEBUG): a failed assert aborts the process, which then makes no more   *)
(* calls.  Dereferencing a pointer that is no heap address kills it too.   *)
(* Reads of memory that free() has taken back are drawn anew at each       *)
(* collection.                                                             *)
(***************************************************************************)
EXTENDS Integers, Sequences, FiniteSets

\* ---- bounds of the model -------------------------------------------------
\* Capacity of the stack.  The source uses 256 (babyvm.c:5); the model keeps
\* the same comparisons against a capacity small enough to fill.
STACK_MAX == 2
\* Heap addresses malloc can return: 1..MaxAddr.
MaxAddr == 3
\* Integers pushed by the caller: 0..MaxValue.
MaxValue == 0
\* numObjects, which newVM leaves uninitialized, starts anywhere in
\* 0..MaxUninit; maxObjects, which newVM leaves to the caller (main stores 1),
\* anywhere in -MaxUninit..MaxUninit.
MaxUninit == 1
\* References into the heap the caller keeps in its own variables.
MaxHeld == 1

\* ---- the object representation --------------------------------------------
OBJ_INT == 0
OBJ_PAIR == 1
\* A field whose content is indeterminate: memory never written or handed
\* back to the allocator, and a union member read after the other was written.
\* As a pointer it is no heap address.
Junk == -1

Ids == 1..MaxAddr
Values == 0..MaxValue
UninitInts == 0..MaxUninit
Thresholds == (0 - MaxUninit)..MaxUninit

VARIABLES
  stack,       \* vm->stack[0 .. stackSize-1], bottom first
  heap,        \* memory of each address: type, marked, value, head, tail
  objects,     \* the chain from vm->firstObject, first node first
  wildTail,    \* TRUE: the chain ends in the uninitialized firstObject, not in NULL
  numObjects,  \* vm->numObjects
  maxObjects,  \* vm->maxObjects
  held,        \* references the caller got back from pop and pushPair and kept
  status,      \* "running", or how the process died: "StackOverflow" and
               \* "StackUnderflow" (a failed assert), "crashed" (a bad pointer)
  last         \* the last call made, and whether a collection ran in it

vars == <<stack, heap, objects, wildTail, numObjects, maxObjects, held, status, last>>

stackSize == Len(stack)

Range(s) == {s[i] : i \in 1..Len(s)}

Registered == Range(objects)

\* Memory the program has never written.
Blank == [type |-> Junk, marked |-> Junk, value |-> Junk, head |-> Junk, tail |-> Junk]

\* ---- reachability, as a property of the graph -----------------------------
\* The registered objects that can be reached from the stack through the
\* head/tail edges of registered pairs.
Edges(h, reg, o) ==
  IF h[o].type = OBJ_PAIR THEN {h[o].head, h[o].tail} \cap reg ELSE {}

RECURSIVE Closure(_, _, _)
Closure(h, reg, S) ==
  LET T == S \cup UNION {Edges(h, reg, o) : o \in S}
  IN IF T = S THEN S ELSE Closure(h, reg, T)

Reachable(stk, h, objs) == Closure(h, Range(objs), Range(stk) \cap Range(objs))

\* ---- the collector --------------------------------------------------------
\* Memory that is not part of a registered object belongs to the allocator;
\* what `type` and `marked` read as there is indeterminate, so each collection
\* draws it: rd[a] is what the stale reference a reads as.  The union's bytes
\* (value / head / tail) are read as they were last written.
\* (When it reads as marked, mark returns before it looks at the type.)
Reads == {[marked |-> 1, type |-> OBJ_INT],
          [marked |-> 0, type |-> OBJ_INT],
          [marked |-> 0, type |-> OBJ_PAIR]}

\* The addresses mark can come to: the stack entries and whatever the head
\* and tail fields lead to from there.
RECURSIVE Visitable(_, _)
Visitable(h, S) ==
  LET T == S \cup (UNION {{h[a].head, h[a].tail} : a \in S} \cap Ids)
  IN IF T = S THEN S ELSE Visitable(h, T)

Exposed(stk, h, objs) == Visitable(h, Range(stk)) \ Range(objs)

View(h, rd) ==
  [a \in Ids |-> IF a \in DOMAIN rd
                 THEN [h[a] EXCEPT !.marked = rd[a].marked, !.type = rd[a].type]
                 ELSE h[a]]

\* The mark phase before its first call of mark.
Unmarked(h) == [ok |-> TRUE, h |-> h, n |-> [a \in Ids |-> 0]]

\* mark that does not go on to the tail of a pair.
RECURSIVE mark_skipsTail(_, _)
mark_skipsTail(st, object) ==
  IF ~st.ok THEN st
  ELSE IF object \notin Ids THEN [st EXCEPT !.ok = FALSE]
  ELSE IF st.h[object].marked # 0 THEN st
  ELSE LET st1 == [st EXCEPT !.h[object].marked = 1, !.n[object] = @ + 1]
       IN IF st1.h[object].type = OBJ_PAIR
          THEN mark_skipsTail(st1, st1.h[object].head)
          ELSE st1

\* mark that writes the flag of an object it finds marked once more.
RECURSIVE mark_writesAgain(_, _)
mark_writesAgain(st, object) ==
  IF ~st.ok THEN st
  ELSE IF object \notin Ids THEN [st EXCEPT !.ok = FALSE]
  ELSE IF st.h[object].marked # 0 THEN [st EXCEPT !.n[object] = @ + 1]
  ELSE LET st1 == [st EXCEPT !.h[object].marked = 1, !.n[object] = @ + 1]
       IN IF st1.h[object].type = OBJ_PAIR
          THEN mark_writesAgain(mark_writesAgain(st1, st1.h[object].head),
                                st1.h[object].tail)
          ELSE st1

\* mark(object) on memory st.h; st.ok turns FALSE when a pointer that is no
\* heap address is dereferenced (the process dies with a segmentation fault).
\* st.n[a] counts the executions of `object->marked = 1` on address a.
RECURSIVE mark(_, _)
mark(st, object) ==
  IF ~st.ok THEN st
  ELSE IF object \notin Ids THEN [st EXCEPT !.ok = FALSE]
  ELSE IF st.h[object].marked # 0 THEN st
  ELSE LET st1 == [st EXCEPT !.h[object].marked = 1, !.n[object] = @ + 1]
       IN IF st1.h[object].type = OBJ_PAIR
          THEN mark(mark(st1, st1.h[object].head), st1.h[object].tail)
          ELSE st1

RECURSIVE markFrom(_, _, _)
\* markAll that runs once the top entry has been popped.
markAll_afterPop(h, stk) == markFrom(Unmarked(h), SubSeq(stk, 1, Len(stk) - 1), 1)

\* markAll whose loop starts one entry too late.
markAll_skipsFirst(h, stk) == markFrom(Unmarked(h), stk, 2)

markFrom(st, stk, i) ==
  IF i > Len(stk) THEN st ELSE markFrom(mark(st, stk[i]), stk, i + 1)

markAll(h, stk) == markFrom(Unmarked(h), stk, 1)

\* sweep: walk the chain; an unmarked node is unlinked, freed and counted, a
\* marked node is unmarked and kept.  sw = [h, kept, freed, numObjects].
RECURSIVE sweepFrom(_, _)
sweepFrom(sw, rest) ==
  IF rest = <<>> THEN sw
  ELSE LET o == Head(rest)
       IN IF sw.h[o].marked = 0
          THEN sweepFrom([sw EXCEPT !.freed = @ + 1, !.numObjects = @ - 1], Tail(rest))
          ELSE sweepFrom([sw EXCEPT !.h[o].marked = 0, !.kept = Append(@, o)], Tail(rest))

\* sweep that leaves the mark on the objects it keeps.
RECURSIVE sweepFrom_keepsMarks(_, _)
sweepFrom_keepsMarks(sw, rest) ==
  IF rest = <<>> THEN sw
  ELSE LET o == Head(rest)
       IN IF sw.h[o].marked = 0
          THEN sweepFrom_keepsMarks([sw EXCEPT !.freed = @ + 1, !.numObjects = @ - 1],
                                    Tail(rest))
          ELSE sweepFrom_keepsMarks([sw EXCEPT !.kept = Append(@, o)], Tail(rest))

\* sweep that, after it frees a node, steps over the node that follows it.
RECURSIVE sweepFrom_stepsOver(_, _)
sweepFrom_stepsOver(sw, rest) ==
  IF rest = <<>> THEN sw
  ELSE LET o == Head(rest)
       IN IF sw.h[o].marked = 0
          THEN IF Tail(rest) = <<>>
               THEN [sw EXCEPT !.freed = @ + 1, !.numObjects = @ - 1]
               ELSE sweepFrom_stepsOver([sw EXCEPT !.freed = @ + 1, !.numObjects = @ - 1,
                                                   !.kept = Append(@, Head(Tail(rest)))],
                                        Tail(Tail(rest)))
          ELSE sweepFrom_stepsOver([sw EXCEPT !.h[o].marked = 0, !.kept = Append(@, o)],
                                   Tail(rest))

sweep_stepsOver(h, objs, n) ==
  sweepFrom_stepsOver([h |-> h, kept |-> <<>>, freed |-> 0, numObjects |-> n], objs)

sweep_keepsMarks(h, objs, n) ==
  sweepFrom_keepsMarks([h |-> h, kept |-> <<>>, freed |-> 0, numObjects |-> n], objs)

sweep(h, objs, n) ==
  sweepFrom([h |-> h, kept |-> <<>>, freed |-> 0, numObjects |-> n], objs)

\* A collection that wipes the payload of the objects it keeps as well.
Release_wipesKept(h, objs) ==
  [a \in Ids |-> IF a \in Range(objs) THEN [h[a] EXCEPT !.value = Junk, !.head = Junk]
                 ELSE [h[a] EXCEPT !.marked = Junk, !.type = Junk, !.value = Junk]]

\* Memory outside the chain after a collection is back with the allocator,
\* which writes its own data over the first fields.
Release(h, objs) ==
  [a \in Ids |-> IF a \in Range(objs) THEN h[a]
                 ELSE [h[a] EXCEPT !.marked = Junk, !.type = Junk, !.value = Junk]]

\* A threshold that grows by a fixed step.
Threshold_plusTwo(n) == n + 2

\* The new threshold.
Threshold(n) == n * 2

\* gc(vm) on the current state.  rd: what stale references read as.  The walk
\* of sweep dies at the end of a chain that ends in the uninitialized pointer.
gc(rd) ==
  LET m == markAll(View(heap, rd), stack)
      s == sweep(m.h, objects, numObjects)
  IN [ok         |-> m.ok /\ ~wildTail,
      heap       |-> Release(s.h, s.kept),
      objects    |-> s.kept,
      numObjects |-> s.numObjects,
      maxObjects |-> Threshold(s.numObjects),
      ran        |-> TRUE,
      freed      |-> s.freed]

\* The call just made, whether a collection ran in it, the "freed" count that
\* collection printed, and whether the call is a gc(vm) made right after
\* another gc(vm), with no call in between.  For a pushInt, arg is the int it
\* was given; for a pop made right after a pushInt, arg is that int still and
\* swept tells whether that pushInt ran a collection.
Did(op, r) ==
  [op    |-> op,
   ran   |-> r.ran /\ r.ok,
   freed |-> IF r.ran /\ r.ok THEN r.freed ELSE 0,
   again |-> op = "gc" /\ r.ran /\ r.ok /\ last.op = "gc" /\ last.ran,
   arg   |-> IF op = "pushInt" /\ "arg" \in DOMAIN r THEN r.arg
             ELSE IF op = "pop" /\ r.ok /\ last.op = "pushInt" THEN last.arg
             ELSE Junk,
   swept |-> op = "pop" /\ r.ok /\ last.op = "pushInt" /\ last.ran]

\* The outcome r of an allocation made for pushInt(vm, intValue).
WithArg(r, intValue) ==
  [ok |-> r.ok, ran |-> r.ran, freed |-> r.freed, arg |-> intValue]

\* ---- allocation -----------------------------------------------------------
\* A trigger that also fires when the count has passed the threshold.
Trigger_atLeast == numObjects >= maxObjects

\* if (vm->numObjects == vm->maxObjects)
Trigger == numObjects = maxObjects

\* An allocation that sets the threshold anew though it does not collect.
Current_resetsThreshold ==
  [ok |-> TRUE, heap |-> heap, objects |-> objects, numObjects |-> numObjects,
   maxObjects |-> Threshold(numObjects), ran |-> FALSE, freed |-> 0]

\* newObject when the trigger does not hold: the VM as it is.
Current ==
  [ok |-> TRUE, heap |-> heap, objects |-> objects, numObjects |-> numObjects,
   maxObjects |-> maxObjects, ran |-> FALSE, freed |-> 0]

NoGc == [ok |-> TRUE, ran |-> FALSE, freed |-> 0]

\* newObject(vm, type), with malloc returning addr.
\* malloc returns an address that holds no live object: the lowest one.  The
\* model's heap is exhausted when there is none.
HeapFull(objs) == Ids \subseteq Range(objs)

malloc(objs) ==
  CHOOSE a \in Ids : a \notin Range(objs) /\ \A b \in 1..(a - 1) : b \in Range(objs)

\* newObject(vm, type); `full` tells that the model's heap had no room.
newObject(type, rd) ==
  LET c == IF Trigger THEN gc(rd) ELSE Current
      full == HeapFull(c.objects)
      object == malloc(c.objects)
  IN IF full \/ ~c.ok
     THEN [ok |-> c.ok, full |-> full, ran |-> c.ran, freed |-> c.freed]
     ELSE [ok         |-> TRUE,
           full       |-> FALSE,
           ran        |-> c.ran,
           freed      |-> c.freed,
           heap       |-> [c.heap EXCEPT ![object].type = type, ![object].marked = 0],
           objects    |-> <<object>> \o c.objects,
           numObjects |-> c.numObjects + 1,
           maxObjects |-> c.maxObjects,
           object     |-> object]

\* The caller stores a returned reference in one of its MaxHeld variables.
Keep(ref) == {k \in SUBSET (held \cup {ref}) : ref \in k /\ Cardinality(k) <= MaxHeld}

ReadChoices == [Exposed(stack, heap, objects) -> Reads]

\* An allocation reads stale memory only when it collects.
AllocReadChoices == IF Trigger THEN ReadChoices ELSE {<<>>}

\* ---- the stack and the pair's fields ---------------------------------------
\* No overflow check at all.
pushAllowed_always(size) == TRUE

\* An overflow check that is off by one.
pushAllowed_offByOne(size) == size <= STACK_MAX

\* assert(vm->stackSize < STACK_MAX) in push, assert(vm->stackSize > 0) in pop.
pushAllowed(size) == size < STACK_MAX

popAllowed(size) == size > 0

\* A pop that takes the oldest entry.
popped_bottom(stk) == stk[1]

\* return vm->stack[--vm->stackSize]
popped(stk) == stk[Len(stk)]

\* A pair that takes itself as its tail.
setPair_selfTail(h, object, stk) ==
  [h EXCEPT ![object].tail = object,
            ![object].head = stk[Len(stk) - 1],
            ![object].value = Junk]

\* The two pops assigned the other way round.
setPair_swapped(h, object, stk) ==
  [h EXCEPT ![object].head = stk[Len(stk)],
            ![object].tail = stk[Len(stk) - 1],
            ![object].value = Junk]

\* object->tail = pop(vm); object->head = pop(vm); on a stack of two or more.
setPair(h, object, stk) ==
  [h EXCEPT ![object].tail = stk[Len(stk)],
            ![object].head = stk[Len(stk) - 1],
            ![object].value = Junk]

\* ---- the calls ------------------------------------------------------------
\* newVM sets stackSize alone; numObjects, maxObjects and firstObject hold
\* whatever malloc's memory held.
Init ==
  /\ stack = <<>>
  /\ heap = [a \in Ids |-> Blank]
  /\ objects = <<>>
  /\ wildTail \in BOOLEAN
  /\ numObjects \in UninitInts
  /\ maxObjects \in Thresholds
  /\ held = {}
  /\ status = "running"
  /\ last = Did("newVM", NoGc)

\* The process dies inside `op`.
Die(op, how) ==
  /\ status' = how
  /\ last' = Did(op, NoGc)
  /\ UNCHANGED <<stack, heap, objects, wildTail, numObjects, maxObjects, held>>

\* gc(vm), called by the program.
Gc ==
  /\ status = "running"
  /\ \E rd \in ReadChoices :
       LET r == gc(rd)
       IN IF ~r.ok THEN Die("gc", "crashed")
          ELSE /\ heap' = r.heap
               /\ objects' = r.objects
               /\ numObjects' = r.numObjects
               /\ maxObjects' = r.maxObjects
               /\ last' = Did("gc", r)
               /\ UNCHANGED <<stack, wildTail, held, status>>

\* push(vm, value) with a reference the caller holds.
Push(value) ==
  /\ status = "running"
  /\ value \in held
  /\ IF pushAllowed(stackSize)
     THEN /\ stack' = Append(stack, value)
          /\ last' = Did("push", NoGc)
          /\ UNCHANGED <<heap, objects, wildTail, numObjects, maxObjects, held, status>>
     ELSE Die("push", "StackOverflow")

\* pop(vm); the caller keeps the reference it returns.
Pop ==
  /\ status = "running"
  /\ IF popAllowed(stackSize)
     THEN /\ stack' = SubSeq(stack, 1, stackSize - 1)
          /\ held' \in Keep(popped(stack))
          /\ last' = Did("pop", NoGc)
          /\ UNCHANGED <<heap, objects, wildTail, numObjects, maxObjects, status>>
     ELSE Die("pop", "StackUnderflow")

\* pushInt(vm, intValue).
PushInt(intValue) ==
  /\ status = "running"
  /\ \E rd \in AllocReadChoices :
       LET n == newObject(OBJ_INT, rd)
       IN IF ~n.ok THEN Die("pushInt", "crashed")
          ELSE /\ ~n.full
               /\ heap' = [n.heap EXCEPT ![n.object].value = intValue,
                                         ![n.object].head = Junk,
                                         ![n.object].tail = Junk]
               /\ objects' = n.objects
               /\ numObjects' = n.numObjects
               /\ maxObjects' = n.maxObjects
               /\ last' = Did("pushInt", WithArg(n, intValue))
               /\ IF pushAllowed(stackSize)
                  THEN /\ stack' = Append(stack, n.object)
                       /\ UNCHANGED status
                  ELSE /\ status' = "StackOverflow"
                       /\ UNCHANGED stack
               /\ UNCHANGED <<wildTail, held>>

\* pushPair(vm); the caller keeps the reference it returns.
PushPair ==
  /\ status = "running"
  /\ \E rd \in AllocReadChoices :
       LET n == newObject(OBJ_PAIR, rd)
       IN IF ~n.ok THEN Die("pushPair", "crashed")
          ELSE /\ ~n.full
               /\ objects' = n.objects
               /\ numObjects' = n.numObjects
               /\ maxObjects' = n.maxObjects
               /\ last' = Did("pushPair", n)
               /\ UNCHANGED wildTail
               /\ IF ~popAllowed(stackSize)
                  THEN \* the first pop fails
                       /\ heap' = n.heap
                       /\ status' = "StackUnderflow"
                       /\ UNCHANGED <<stack, held>>
                  ELSE IF ~popAllowed(stackSize - 1)
                  THEN \* the tail is popped, the second pop fails
                       /\ heap' = [n.heap EXCEPT ![n.object].tail = stack[1]]
                       /\ stack' = <<>>
                       /\ status' = "StackUnderflow"
                       /\ UNCHANGED held
                  ELSE /\ heap' = setPair(n.heap, n.object, stack)
                       /\ stack' = Append(SubSeq(stack, 1, stackSize - 2), n.object)
                       /\ held' \in Keep(n.object)
                       /\ UNCHANGED status

Next ==
  \/ Gc
  \/ \E value \in Ids : Push(value)
  \/ Pop
  \/ \E intValue \in Values : PushInt(intValue)
  \/ PushPair

Spec == Init /\ [][Next]_vars

\* ---- what a step shows of the collection that ran in it ---------------------
\* The chain as the collection left it: an allocation puts its new object in
\* front of that chain afterwards.
Survivors == IF last.op = "gc" THEN Range(objects) ELSE Range(Tail(objects))

\* numObjects as the collection left it.
CountAfterGc == IF last.op = "gc" THEN numObjects ELSE numObjects - 1

Failed == status \in {"StackOverflow", "StackUnderflow"}

StackValid == Range(stack) \subseteq Registered

\* ---- C1 ---------------------------------------------------------------------
\* C1: in every collection, forced or triggered by an allocation, each
\* registered object that is reachable from a stack entry through head/tail
\* edges when the collection begins is still in the chain when it ends.
C1_ReachableSurvive ==
  [][last'.ran => Reachable(stack, heap, objects) \subseteq Survivors']_vars

\* A collection that freed something and kept a pair on the stack together
\* with a component that is on the stack no more.
C1_Witness ==
  /\ last.ran /\ last.freed > 0
  /\ \E p \in Range(stack) \cap Registered :
       /\ heap[p].type = OBJ_PAIR
       /\ heap[p].tail \in Registered \ Range(stack)

\* ---- C2 ---------------------------------------------------------------------
\* C2: right after a collection the chain holds exactly the objects that were
\* reachable from the stack when it began, the number it freed is the number
\* of registered objects that were unreachable, and a collection run on an
\* empty stack leaves the live count at 0.
C2_ExactlyReachableRemain ==
  [][last'.ran =>
       /\ Survivors' = Reachable(stack, heap, objects)
       /\ last'.freed = Cardinality(Registered \ Reachable(stack, heap, objects))
       /\ (stack = <<>> => CountAfterGc' = 0)]_vars

\* ---- C3 ---------------------------------------------------------------------
\* C3: in every state from newVM on, numObjects is the number of nodes of the
\* list that starts at firstObject (a list that ends in NULL).
C3_CountIsListLength == ~wildTail /\ numObjects = Len(objects)

\* ---- C4 ---------------------------------------------------------------------
\* C4: the equality trigger is never skipped: the live count does not pass the
\* threshold, so that allocating, one object at a time, comes to
\* numObjects == maxObjects again.  Stated for the states that follow a call
\* in which a collection ran.
C4_TriggerStaysAhead ==
  (status = "running" /\ last.ran) => numObjects <= maxObjects

\* ---- C5 ---------------------------------------------------------------------
\* C5: when pushInt fails on a full stack or pushPair fails on a stack of
\* fewer than two entries, the stack, the chain of objects, the live count and
\* the threshold are what they were before the call.
C5_FailedAllocationChangesNothing ==
  [][(last'.op \in {"pushInt", "pushPair"} /\ Failed')
       => /\ stack' = stack
          /\ objects' = objects
          /\ numObjects' = numObjects
          /\ maxObjects' = maxObjects]_vars

\* ---- C6 ---------------------------------------------------------------------
\* C6 as stated: whatever reference the caller got earlier and pushes, every
\* stack entry refers to an object that is in the chain.
C6_StackNeverDangles == StackValid

\* The last call was a push of a reference to no registered object.
PushedFreed ==
  last.op = "push" /\ status = "running" /\ stack[Len(stack)] \notin Registered

\* C6, amended: as long as each reference given to push refers, at that push,
\* to an object in the chain, every stack entry refers to an object in the
\* chain: no call other than a push of a reference to a freed object makes a
\* stack entry dangle.
C6_OnlyPushOfFreedDangles ==
  [][(StackValid /\ ~PushedFreed') => StackValid']_vars

\* A push of a reference to a live object, made after a collection freed a
\* pair (its memory still shows the old head), leaves two valid entries.
C6_Witness ==
  /\ last.op = "push" /\ status = "running"
  /\ Len(stack) = 2 /\ StackValid
  /\ \E a \in Ids \ Registered : heap[a].head # Junk

\* ---- C7 ---------------------------------------------------------------------
\* C7: outside a running collection every object in the chain has marked = 0.
C7_UnmarkedAtRest == \A a \in Registered : heap[a].marked = 0

\* A collection has just kept at least two objects.
C7_Witness == last.ran /\ Cardinality(Survivors) >= 2

\* ---- C8 ---------------------------------------------------------------------
\* C8: right after every collection maxObjects is twice the live count that
\* the sweep left.
C8_ThresholdIsTwiceLive == [][last'.ran => maxObjects' = 2 * CountAfterGc']_vars

\* A collection triggered by an allocation that kept one object and freed one.
C8_Witness ==
  /\ last.ran /\ last.op \in {"pushInt", "pushPair"}
  /\ last.freed = 1 /\ Cardinality(Survivors) = 1

\* ---- C9 ---------------------------------------------------------------------
\* C9: with a below b on top of the stack, pushPair leaves on top of the stack
\* a registered pair whose head is a and whose tail is b, in place of the two,
\* whether or not the call ran a collection.
C9_PairOrder ==
  [][(last'.op = "pushPair" /\ status' = "running")
       => LET p == stack'[Len(stack')]
          IN /\ Len(stack') = Len(stack) - 1
             /\ p \in Registered'
             /\ heap'[p].type = OBJ_PAIR
             /\ heap'[p].head = stack[Len(stack) - 1]
             /\ heap'[p].tail = stack[Len(stack)]]_vars

\* A pushPair that ran a collection and paired two different objects.
C9_Witness ==
  /\ last.op = "pushPair" /\ last.ran /\ status = "running"
  /\ heap[stack[Len(stack)]].head # heap[stack[Len(stack)]].tail

\* ---- C10 --------------------------------------------------------------------
\* C10: push on a stack of STACK_MAX entries fails with StackOverflow and pop
\* on an empty stack fails with StackUnderflow, and the failing call leaves
\* the stack, the chain of objects, the live count and the threshold as they
\* were.
C10_DirectFailuresChangeNothing ==
  [][/\ (last'.op = "push" /\ Len(stack) = STACK_MAX) => status' = "StackOverflow"
     /\ (last'.op = "pop" /\ Len(stack) = 0) => status' = "StackUnderflow"
     /\ (last'.op \in {"push", "pop"} /\ Failed')
          => /\ stack' = stack
             /\ heap' = heap
             /\ objects' = objects
             /\ numObjects' = numObjects
             /\ maxObjects' = maxObjects]_vars

\* A push that failed on a full stack with objects in the chain.
C10_Witness ==
  /\ last.op = "push" /\ status = "StackOverflow"
  /\ Len(stack) = STACK_MAX /\ objects # <<>>

\* ---- C11 --------------------------------------------------------------------
\* C11 as stated: from any reachable state, a gc(vm) made right after another
\* gc(vm) frees 0 objects and leaves the chain, the live count and the
\* threshold as the first left them.
C11_SecondCollectionReclaimsNothing ==
  [][last'.again =>
       /\ last'.freed = 0
       /\ objects' = objects
       /\ numObjects' = numObjects
       /\ maxObjects' = maxObjects]_vars

\* Every reference that mark can come to, a stack entry or the head or tail of
\* what it has come to, refers to an object in the chain.
NoStaleReference == Exposed(stack, heap, objects) = {}

\* C11, amended: when every stack entry, and every head and tail that can be
\* reached from one, refers to an object in the chain, a gc(vm) made right
\* after another gc(vm) frees 0 objects and leaves the chain, the live count
\* and the threshold as the first left them.
C11_SecondCollectionOnSoundGraph ==
  [][(last'.again /\ NoStaleReference) =>
       /\ last'.freed = 0
       /\ objects' = objects
       /\ numObjects' = numObjects
       /\ maxObjects' = maxObjects]_vars

\* The second of two collections in a row, the first of which freed a pair and
\* kept an object: the second freed nothing.
C11_Witness ==
  /\ last.again /\ last.freed = 0
  /\ NoStaleReference /\ stack # <<>>
  /\ \E a \in Ids \ Registered : heap[a].head # Junk

\* ---- C12 --------------------------------------------------------------------
\* Any object graph on the heap: every address holds an unmarked object, an
\* int or a pair whose head and tail are any two objects (itself, and the
\* objects that point to it, included); the chain holds them all, newest
\* first, and the stack holds any references to them.
GraphObjects ==
  [type : {OBJ_INT}, marked : {0}, value : Values, head : {Junk}, tail : {Junk}]
    \cup [type : {OBJ_PAIR}, marked : {0}, value : {Junk}, head : Ids, tail : Ids]

GraphInit ==
  /\ heap \in [Ids -> GraphObjects]
  /\ stack \in UNION {[1..n -> Ids] : n \in 0..STACK_MAX}
  /\ objects = [i \in 1..MaxAddr |-> MaxAddr + 1 - i]
  /\ numObjects = MaxAddr
  /\ maxObjects = MaxAddr
  /\ wildTail = FALSE
  /\ held = {}
  /\ status = "running"
  /\ last = Did("newVM", NoGc)

\* gc(vm) called on such a graph, any number of times.
GraphSpec == GraphInit /\ [][Gc]_vars

\* The objects of the chain that lie on a cycle of head/tail edges.
OnCycle(h, reg) ==
  {a \in reg : a \in Closure(h, reg, Edges(h, reg, a))}

\* C12: on every object graph, with cycles or without, the mark phase comes to
\* an end having executed `marked = 1` exactly once on each object reachable
\* from the stack and never on an address twice (which bounds the number of
\* calls of mark), and the collection keeps every reachable object, those of
\* a cycle included.
C12_MarkOnceAndKeepCycles ==
  [][/\ \A rd \in ReadChoices :
          LET m == markAll(View(heap, rd), stack)
          IN m.ok => /\ \A a \in Reachable(stack, heap, objects) : m.n[a] = 1
                     /\ \A a \in Ids : m.n[a] <= 1
     /\ last'.ran => Reachable(stack, heap, objects) \subseteq Survivors']_vars

\* A collection has freed an object and kept, on the stack, a pair that is
\* reached again from its own head through a second pair.
C12_Witness ==
  /\ last.ran /\ last.freed > 0
  /\ \E p \in Range(stack) \cap Registered :
       /\ p \in OnCycle(heap, Registered)
       /\ heap[p].head \in Registered \ {p}
       /\ p \in Edges(heap, Registered, heap[p].head)

\* ---- C13 --------------------------------------------------------------------
\* C13: when the VM starts with maxObjects <= 0, its first allocation (no
\* object exists yet) runs a collection, keeps every reachable object, and
\* leaves numObjects equal to the number of objects in the chain.
C13_NonPositiveThresholdCollectsFirst ==
  [][(last.op = "newVM" /\ maxObjects <= 0 /\ last'.op \in {"pushInt", "pushPair"})
       => /\ last'.ran
          /\ Reachable(stack, heap, objects) \subseteq Survivors'
          /\ numObjects' = Len(objects')]_vars

\* ---- C14 --------------------------------------------------------------------
\* C14: in every reachable state 0 <= stackSize <= STACK_MAX: no sequence of
\* push, pop, pushInt and pushPair takes the stack over its capacity or under
\* empty (the call that would do so dies on its assert first).
C14_StackWithinCapacity == 0 <= stackSize /\ stackSize <= STACK_MAX

\* A pushInt on a full stack has died on the assert of push.
C14_Witness ==
  last.op = "pushInt" /\ status = "StackOverflow" /\ stackSize = STACK_MAX

\* ---- C15 --------------------------------------------------------------------
\* The VM as main sets it up (maxObjects = 1), and a caller that pushes ints
\* from 0..MaxRoundTripValue and leaves collecting to the allocator.
MaxRoundTripValue == 1

RoundTripValues == 0..MaxRoundTripValue

MainInit == Init /\ maxObjects = 1

RoundTripNext ==
  \/ \E value \in Ids : Push(value)
  \/ Pop
  \/ \E intValue \in RoundTripValues : PushInt(intValue)
  \/ PushPair

RoundTripSpec == MainInit /\ [][RoundTripNext]_vars

\* C15: a push, pushInt or pushPair that returns puts its reference on top of
\* the stack and leaves the entries under it in place; a pop that returns
\* gives the top entry and removes that entry alone; and the pop made right
\* after pushInt(v) gives an OBJ_INT object whose value is v, whether or not
\* that pushInt ran a collection.
C15_LastInFirstOut ==
  [][/\ (last'.op \in {"push", "pushInt"} /\ status' = "running")
          => SubSeq(stack', 1, Len(stack)) = stack /\ Len(stack') = Len(stack) + 1
     /\ (last'.op = "pushPair" /\ status' = "running")
          => SubSeq(stack', 1, Len(stack) - 2) = SubSeq(stack, 1, Len(stack) - 2)
             /\ Len(stack') = Len(stack) - 1
     /\ (last'.op = "pop" /\ status' = "running")
          => /\ stack[Len(stack)] \in held'
             /\ stack = Append(stack', stack[Len(stack)])
             /\ last.op = "pushInt"
                  => /\ heap'[stack[Len(stack)]].type = OBJ_INT
                     /\ heap'[stack[Len(stack)]].value = last.arg]_vars

\* A pop made right after a pushInt(MaxRoundTripValue) that ran a collection
\* has returned an int object of that value, from a stack of two.
C15_Witness ==
  /\ last.op = "pop" /\ last.swept /\ last.arg = MaxRoundTripValue
  /\ stackSize = 1
  /\ \E r \in held \ Range(stack) :
       heap[r].type = OBJ_INT /\ heap[r].value = MaxRoundTripValue

\* ---- C16 --------------------------------------------------------------------
\* C16: a pushInt or pushPair runs a collection exactly when numObjects equals
\* maxObjects as the call begins (a call that dies inside the collection apart);
\* so once a collection has set maxObjects, no allocation collects while
\* numObjects differs from it.
C16_CollectsExactlyOnTrigger ==
  [][(last'.op \in {"pushInt", "pushPair"} /\ status' # "crashed")
       => (last'.ran <=> numObjects = maxObjects)]_vars

\* An allocation has collected, freed an object and kept one; with its new
\* object the count is at the threshold that collection set.
C16_Witness ==
  /\ last.op \in {"pushInt", "pushPair"} /\ last.ran /\ status = "running"
  /\ last.freed > 0 /\ numObjects = 2 /\ maxObjects = 2

\* ---- C17 --------------------------------------------------------------------
\* The two entries on top of the stack, the operands of a pushPair.
Operands == {stack[i] : i \in {Len(stack) - 1, Len(stack)} \cap DOMAIN stack}

\* What C17 says of a pushPair that ran a collection and returned: the
\* operands and all that is reachable from them are in the chain the
\* collection left, and the head and tail of the pair now on top of the stack
\* are objects of the chain.
OperandsSurvive ==
  (last'.op = "pushPair" /\ last'.ran /\ status' = "running")
    => /\ Operands \subseteq Survivors'
       /\ Closure(heap, Registered, Operands \cap Registered) \subseteq Survivors'
       /\ heap'[stack'[Len(stack')]].head \in Registered'
       /\ heap'[stack'[Len(stack')]].tail \in Registered'

\* C17 as stated: whenever pushPair triggers a collection, both operands and
\* everything reachable from them survive it, and the pair that is pushed has a
\* head and a tail that are registered, unfreed objects.
C17_OperandsSurvive == [][OperandsSurvive]_vars

\* C17, amended: whenever pushPair triggers a collection and its two operands
\* refer to objects in the chain, both operands and everything reachable from
\* them survive it, and the pair that is pushed has a head and a tail that are
\* registered, unfreed objects.
C17_RegisteredOperandsSurvive ==
  [][Operands \subseteq Registered => OperandsSurvive]_vars

\* A pushPair has run a collection that freed an object, and paired two
\* different objects of the chain, the head a pair itself.
C17_Witness ==
  /\ last.op = "pushPair" /\ last.ran /\ status = "running" /\ last.freed > 0
  /\ LET p == stack[Len(stack)]
     IN /\ {heap[p].head, heap[p].tail} \subseteq Registered \ {p}
        /\ heap[p].head # heap[p].tail
        /\ heap[heap[p].head].type = OBJ_PAIR
        /\ heap[heap[p].head].head \in Registered

\* ---- C18 --------------------------------------------------------------------
\* C18: a collection leaves the stack as it was, in size and in every entry,
\* and leaves the type, value, head and tail of every object it keeps as they
\* were.  In a gc(vm) the stack after is the stack before; in an allocation
\* that collects, the entries the call itself does not pop are in place, and
\* the two a pushPair pops are the head and tail it stores.
C18_CollectionKeepsStackAndPayload ==
  [][last'.ran =>
       /\ last'.op = "gc" => stack' = stack
       /\ last'.op = "pushInt" => SubSeq(stack', 1, Len(stack)) = stack
       /\ (last'.op = "pushPair" /\ status' = "running")
            => /\ SubSeq(stack', 1, Len(stack) - 2) = SubSeq(stack, 1, Len(stack) - 2)
               /\ heap'[stack'[Len(stack')]].head = stack[Len(stack) - 1]
               /\ heap'[stack'[Len(stack')]].tail = stack[Len(stack)]
       /\ \A a \in Survivors' :
            /\ heap'[a].type = heap[a].type
            /\ heap'[a].value = heap[a].value
            /\ heap'[a].head = heap[a].head
            /\ heap'[a].tail = heap[a].tail]_vars

\* A gc(vm) has freed an object and kept, with a stack of two entries, a pair
\* and the int that is its head.
C18_Witness ==
  /\ last.op = "gc" /\ last.ran /\ last.freed > 0 /\ Len(stack) = 2
  /\ \E p \in Range(stack) \cap Registered :
       /\ heap[p].type = OBJ_PAIR
       /\ heap[p].head \in (Registered \cap Range(stack)) \ {p}
       /\ heap[heap[p].head].type = OBJ_INT
       /\ heap[heap[p].head].value \in Values

\* ---- C19 --------------------------------------------------------------------
\* C19: objects leave the chain in a collection only.  A push, a pop, and a
\* pushInt or pushPair that begins with numObjects # maxObjects take no object
\* out of the chain, do not lower numObjects and do not change maxObjects; a
\* push or a pop changes neither the chain, nor the memory of any object, nor
\* the two counters.
C19_OnlyCollectionRemoves ==
  [][/\ (last'.op \in {"push", "pop"}
          \/ (last'.op \in {"pushInt", "pushPair"} /\ numObjects # maxObjects))
          => /\ Registered \subseteq Registered'
             /\ \A i \in 1..Len(objects) :
                  objects'[i + Len(objects') - Len(objects)] = objects[i]
             /\ numObjects' >= numObjects
             /\ maxObjects' = maxObjects
     /\ last'.op \in {"push", "pop"}
          => /\ objects' = objects
             /\ heap' = heap
             /\ numObjects' = numObjects
             /\ maxObjects' = maxObjects]_vars

\* A pushPair that did not collect has brought the chain to three objects,
\* past a threshold of 0.
C19_Witness ==
  /\ last.op = "pushPair" /\ ~last.ran /\ status = "running"
  /\ Len(objects) = 3 /\ maxObjects = 0 /\ numObjects = 3

\* ---- C20 --------------------------------------------------------------------
\* No object of the chain is reached again from its own head or tail.
Acyclic == OnCycle(heap, Registered) = {}

\* Every stack entry, and the head and tail of every pair in the chain, refers
\* to an object in the chain.
Closed ==
  /\ StackValid
  /\ \A p \in Registered :
       heap[p].type = OBJ_PAIR => {heap[p].head, heap[p].tail} \subseteq Registered

\* C20 as stated: after any sequence of pushInt, pushPair, push, pop and gc
\* that the process is still running after, the head/tail graph over the
\* objects in the chain has no cycle.
C20_NoCycles == status = "running" => Acyclic

\* C20, amended: as long as no push is given a reference to a freed object,
\* every stack entry and every pair's head and tail refer to objects in the
\* chain and the head/tail graph over the chain has no cycle: a call other than
\* such a push, made in a state of that kind and returning, leaves a state of
\* that kind.
C20_NoCyclesWithoutFreedPush ==
  [][(Closed /\ Acyclic /\ ~PushedFreed' /\ status' = "running")
       => (Closed' /\ Acyclic')]_vars

\* A pushPair has built a pair whose head and tail are one and the same pair:
\* sharing, and no cycle.
C20_Witness ==
  /\ last.op = "pushPair" /\ status = "running" /\ Closed /\ Acyclic
  /\ LET p == stack[Len(stack)]
     IN /\ heap[p].head = heap[p].tail
        /\ heap[heap[p].head].type = OBJ_PAIR

====
